---- MODULE Spec2Model ----
(***************************************************************************)
(* Model of streamlit_app.py: the Groq completion helper wrapped in        *)
(* st.cache_data, the two orchestrator functions rephrase and              *)
(* generate_response, and the two page handlers (Writing Tools, Chat).     *)
(*                                                                         *)
(* Text is a sequence of tokens: one token per character where the         *)
(* character matters to the code (space, newline, double quote), one token *)
(* per run of literal text otherwise.  Python's None is the empty tuple    *)
(* and a present value x is the one-element tuple <<x>>.                   *)
(***************************************************************************)
EXTENDS Integers, Sequences, FiniteSets, TLC

\* ------------------------------------------------------------ bounds
\* UI events (button clicks and chat submissions) per session, and direct
\* orchestrator calls in FnSpec.
MaxEvents == 3
\* Largest number of choices one provider response carries.
MaxChoices == 3
\* Longest raw choice text the cleaning is applied to in CleanSpec.
MaxTextLen == 4

\* ------------------------------------------------------------ constants
DEFAULT_MODEL == "llama3-70b-4096"

AVAILABLE_MODELS == <<"llama3-70b-4096", "llama3-8b-8192", "mixtral-8x7b-32768", "gemma-7b-it">>

NUM_REPHRASES == 3

\* The instruction each transformation button carries (button_actions).
button_actions ==
  ("Rephrase" :> <<"Rewrite this text for better readability while maintaining its original meaning. Focus on improving sentence structure and clarity.">>)
    @@ ("Make Gen Z" :> <<"Rewrite this text to make it more appealing and relatable to a younger, millennial or Gen Z audience. Use contemporary language, slang, and references that resonate with this demographic, while keeping the original message intact.">>)
    @@ ("Write Email" :> <<"Create a professional and formal email based on the text. Ensure the tone is respectful and the language is polished, keeping the core message intact.">>)
    @@ ("Make Concise" :> <<"Rewrite this section to make it more concise. Remove any unnecessary words and redundant phrases, while keeping the original message intact.">>)
    @@ ("Grammar Check" :> <<"Identify grammatical errors, suggest corrections, and briefly explain the reasoning behind the changes. Maintain the original meaning.">>)

chat_instruction == <<"Respond helpfully to the following user request:">>

FailedPlaceholder == <<"*Assistant failed to respond*">>

\* ------------------------------------------------------------ Python values
None == <<>>

Some(x) == <<x>>

\* Python truth of an Optional[str] or Optional[list]: None and the empty
\* string or list are false.
Truthy(o) == o # None /\ o[1] # <<>>

Whitespace == {" ", "\n", "\t"}

RECURSIVE LStrip(_, _)
LStrip(s, chars) ==
  IF s # <<>> /\ Head(s) \in chars THEN LStrip(Tail(s), chars) ELSE s

RECURSIVE RStrip(_, _)
RStrip(s, chars) ==
  IF s # <<>> /\ s[Len(s)] \in chars THEN RStrip(SubSeq(s, 1, Len(s) - 1), chars) ELSE s

\* str.strip(chars)
Strip(s, chars) == RStrip(LStrip(s, chars), chars)

\* r.strip().strip('"')
Clean(r) == Strip(Strip(r, Whitespace), {"\""})

IsPrefix(s, t) == Len(s) <= Len(t) /\ SubSeq(t, 1, Len(s)) = s

\* ------------------------------------------------------------ inputs
\* The model the sidebar selectbox holds in the explored sessions (its
\* default), and the models direct calls of the orchestrator pass.
Models == {DEFAULT_MODEL}

FnModels == {AVAILABLE_MODELS[1], AVAILABLE_MODELS[2]}

\* The buttons clicked in the explored sessions.
Buttons == {"Rephrase", "Make Concise"}

\* Texts typed into the text area (the empty text included) and into the
\* chat input (never empty: st.chat_input yields None for no input).
WritingTexts == {<<>>, <<"a">>}

ChatTexts == {<<"hello">>, <<"what", " ", "did", " ", "I", " ", "say?">>}

\* GROQ_API_KEY as the environment holds it: unset, rejected, accepted.
ApiKeys == {"", "gsk_invalid", "gsk_valid"}

\* Contents the provider puts into choices.
Contents ==
  << <<"hi">>,
     <<" ", "\"", "b", "\"", "\n">>,
     <<" ">>,
     <<" ", "<think>", "plan", "\n", "</think>", "answer", "\n">> >>

\* The k choices of one provider response, in response order.
ProviderChoices(k) == [i \in 1..k |-> Contents[((k + i) % Len(Contents)) + 1]]

\* Exception classes the provider call raises, with their base classes
\* (groq's hierarchy): the first element is the class itself.
Bases(exc) ==
  CASE exc = "APIConnectionError" -> {"APIConnectionError", "APIError", "Exception"}
    [] exc = "RateLimitError" -> {"RateLimitError", "APIStatusError", "APIError", "Exception"}
    [] exc = "APIStatusError" -> {"APIStatusError", "APIError", "Exception"}
    [] OTHER -> {exc, "Exception"}

Raisable == {"APIConnectionError", "RateLimitError", "APIStatusError", "TypeError"}

\* What client.chat.completions.create does on one call: returns a
\* completion with k choices, or raises.
ProviderOutcomes ==
  {[kind |-> "completion", k |-> k, exc |-> "none"] : k \in 0..MaxChoices}
    \cup {[kind |-> "raise", k |-> 0, exc |-> e] : e \in Raisable}

NoOutcome == [kind |-> "none", k |-> 0, exc |-> "none"]

\* ------------------------------------------------------------ _call_groq_api
\* As ApiMessages, with a system message put in front of the prompt.
ApiMessagesWithSystem(prompt) ==
  <<[role |-> "system", content |-> <<"You are a helpful assistant.">>],
    [role |-> "user", content |-> prompt]>>

\* messages=[{"role": "user", "content": prompt}]
ApiMessages(prompt) == <<[role |-> "user", content |-> prompt]>>

\* The tuple (response_contents, error) the function returns.
Returned(responses, error) == [fault |-> None, value |-> [responses |-> responses, error |-> error]]

\* An exception no except clause caught leaves the function.
Raised(exc) == [fault |-> Some(exc), value |-> [responses |-> None, error |-> None]]

\* As HandleException, without the closing `except Exception` clause.
HandleExceptionNoCatchAll(exc) ==
  IF "APIConnectionError" \in Bases(exc)
    THEN Returned(None, Some(<<"Groq API Connection Error: ", "<cause>">>))
  ELSE IF "RateLimitError" \in Bases(exc)
    THEN Returned(None, Some(<<"Groq Rate Limit Exceeded. Please wait and try again.">>))
  ELSE IF "APIStatusError" \in Bases(exc)
    THEN Returned(None, Some(<<"Groq API Error (Status ", "<status_code>", "): ", "<message>">>))
  ELSE Raised(exc)

\* The except clauses, tried in source order.
HandleException(exc) ==
  IF "APIConnectionError" \in Bases(exc)
    THEN Returned(None, Some(<<"Groq API Connection Error: ", "<cause>">>))
  ELSE IF "RateLimitError" \in Bases(exc)
    THEN Returned(None, Some(<<"Groq Rate Limit Exceeded. Please wait and try again.">>))
  ELSE IF "APIStatusError" \in Bases(exc)
    THEN Returned(None, Some(<<"Groq API Error (Status ", "<status_code>", "): ", "<message>">>))
  ELSE IF "Exception" \in Bases(exc)
    THEN Returned(None, Some(<<"An unexpected error occurred: ", "<e>">>))
  ELSE Raised(exc)

\* As FromCompletion, without the test of completion.choices.
FromCompletionUnchecked(choices) == Returned(Some(choices), None)

\* As FromCompletion, iterating over completion.choices[1:].
FromCompletionDropFirst(choices) ==
  IF choices # <<>>
    THEN Returned(Some(Tail(choices)), None)
    ELSE Returned(None, Some(<<"API returned no choices.">>))

\* if completion.choices: ... else: ...
FromCompletion(choices) ==
  IF choices # <<>>
    THEN Returned(Some(choices), None)
    ELSE Returned(None, Some(<<"API returned no choices.">>))

\* As TimingEmitted, with the st.sidebar.info call in a finally clause.
TimingAlways(outcome) == TRUE

\* Line 74: st.sidebar.info with the call's duration runs when
\* client.chat.completions.create returned, and is skipped when it raised.
TimingEmitted(outcome) == outcome.kind = "completion"

\* The body of _call_groq_api, run on a cache miss: one provider call.
CallBody(outcome) ==
  IF outcome.kind = "completion"
    THEN FromCompletion(ProviderChoices(outcome.k))
    ELSE HandleException(outcome.exc)

\* The cache key st.cache_data derives from the arguments.
Request(prompt, model, n, temperature) ==
  [prompt |-> prompt, model |-> model, n |-> n, temperature |-> temperature]

NoRequest == Request(<<>>, "", 0, "")

NoCall ==
  [called |-> FALSE, req |-> NoRequest, fault |-> None,
   value |-> [responses |-> None, error |-> None],
   cache |-> <<>>, network |-> FALSE, sent |-> <<>>, provided |-> NoOutcome,
   timing |-> FALSE]

\* As CachedCall, with entries that are never served (the body runs on
\* every call and its return value replaces the entry).
CachedCallNoHit(c, req, outcome) ==
  LET r == CallBody(outcome)
  IN [called |-> TRUE, req |-> req, fault |-> r.fault, value |-> r.value,
      cache |-> IF r.fault = None
                  THEN [q \in DOMAIN c \cup {req} |-> IF q = req THEN r.value ELSE c[q]]
                  ELSE c,
      network |-> TRUE, sent |-> ApiMessages(req.prompt), provided |-> outcome,
      timing |-> TimingEmitted(outcome)]

\* @st.cache_data around _call_groq_api: a stored return value is served
\* without running the body; otherwise the body runs and whatever it
\* returns is stored (nothing is stored when it raises).
CachedCall(c, req, outcome) ==
  IF req \in DOMAIN c
    THEN [called |-> TRUE, req |-> req, fault |-> None, value |-> c[req],
          cache |-> c, network |-> FALSE, sent |-> <<>>, provided |-> NoOutcome,
          timing |-> FALSE]
    ELSE LET r == CallBody(outcome)
         IN [called |-> TRUE, req |-> req, fault |-> r.fault, value |-> r.value,
             cache |-> IF r.fault = None THEN c @@ (req :> r.value) ELSE c,
             network |-> TRUE, sent |-> ApiMessages(req.prompt), provided |-> outcome,
             timing |-> TimingEmitted(outcome)]

\* ------------------------------------------------------------ orchestrator
\* prompt_for_n
RephrasePrompt(instruction, user_message) ==
  <<"Instruction: ">> \o instruction
    \o <<"\n", "\n", "Rewrite the following text according to the instruction:", "\n", "\"">>
    \o user_message \o <<"\"", "\n">>

\* As ChatPrompt, with the instruction left out of the prompt.
ChatPromptNoInstruction(instruction, user_message) ==
  <<"\"">> \o user_message \o <<"\"">>

\* f'{instruction}\n\n"{user_message}"'
ChatPrompt(instruction, user_message) ==
  instruction \o <<"\n", "\n", "\"">> \o user_message \o <<"\"">>

\* What an orchestrator call leaves behind: its return value, the st.error
\* and st.warning boxes it showed, and the completion call it made.
OrchResult(ret, ui, api) == [ret |-> ret, ui |-> ui, api |-> api]

\* As RephraseTail, with cleaned results that came out empty left out.
RephraseTailDropEmpty(api) ==
  IF api.fault # None THEN OrchResult(<<>>, <<>>, api)
  ELSE IF Truthy(api.value.error) THEN OrchResult(<<>>, <<"error">>, api)
  ELSE IF Truthy(api.value.responses)
    THEN OrchResult(SelectSeq([i \in 1..Len(api.value.responses[1]) |->
                                 Clean(api.value.responses[1][i])],
                              LAMBDA x : x # <<>>),
                    <<>>, api)
  ELSE OrchResult(<<>>, <<"warning">>, api)

\* Lines 121-130, after the completion call returned.
RephraseTail(api) ==
  IF api.fault # None THEN OrchResult(<<>>, <<>>, api)
  ELSE IF Truthy(api.value.error) THEN OrchResult(<<>>, <<"error">>, api)
  ELSE IF Truthy(api.value.responses)
    THEN OrchResult([i \in 1..Len(api.value.responses[1]) |-> Clean(api.value.responses[1][i])],
                    <<>>, api)
  ELSE OrchResult(<<>>, <<"warning">>, api)

\* As rephrase, without the early return for an empty user_message.
rephraseNoGuard(c, instruction, user_message, model, outcome) ==
  RephraseTail(CachedCall(c,
    Request(RephrasePrompt(instruction, user_message), model, NUM_REPHRASES, "0.7"),
    outcome))

rephrase(c, instruction, user_message, model, outcome) ==
  IF user_message = <<>>
    THEN OrchResult(<<>>, <<>>, [NoCall EXCEPT !.cache = c])
    ELSE RephraseTail(CachedCall(c,
           Request(RephrasePrompt(instruction, user_message), model, NUM_REPHRASES, "0.7"),
           outcome))

\* As GenerateTail, returning responses[0] without .strip().
GenerateTailNoStrip(api) ==
  IF api.fault # None THEN OrchResult(<<>>, <<>>, api)
  ELSE IF Truthy(api.value.error) THEN OrchResult(<<>>, <<"error">>, api)
  ELSE IF Truthy(api.value.responses)
    THEN OrchResult(api.value.responses[1][1], <<>>, api)
  ELSE OrchResult(<<>>, <<"warning">>, api)

\* Lines 148-155, after the completion call returned.
GenerateTail(api) ==
  IF api.fault # None THEN OrchResult(<<>>, <<>>, api)
  ELSE IF Truthy(api.value.error) THEN OrchResult(<<>>, <<"error">>, api)
  ELSE IF Truthy(api.value.responses)
    THEN OrchResult(Strip(api.value.responses[1][1], Whitespace), <<>>, api)
  ELSE OrchResult(<<>>, <<"warning">>, api)

generate_response(c, instruction, user_message, model, outcome) ==
  IF user_message = <<>>
    THEN OrchResult(<<>>, <<>>, [NoCall EXCEPT !.cache = c])
  ELSE IF instruction = <<>>
    THEN OrchResult(<<>>, <<"warning">>, [NoCall EXCEPT !.cache = c])
  ELSE GenerateTail(CachedCall(c,
         Request(ChatPrompt(instruction, user_message), model, 1, "0.5"),
         outcome))

\* ------------------------------------------------------------ page handlers
\* get_groq_client's client.models.list() with the given key.
ListOutcomes(key) ==
  IF key = "gsk_valid" THEN {"ok", "Exception"} ELSE {"AuthenticationError", "Exception"}

\* As ClientAfter, with the st.stop() calls left out: the script goes on
\* past line 42 whatever get_groq_client met.
ClientAfterNoStop(key, listed) == "ready"

\* get_groq_client, lines 26-40: the client is returned (and cached) when the
\* key is set and client.models.list() succeeds; otherwise st.stop().
ClientAfter(key, listed) == IF key # "" /\ listed = "ok" THEN "ready" ELSE "none"

\* As ChatAppend, with nothing appended for the assistant when the
\* response is empty.
ChatAppendNoPlaceholder(history, prompt, response_content) ==
  IF response_content # <<>>
    THEN Append(Append(history, [role |-> "user", content |-> prompt]),
                [role |-> "assistant", content |-> response_content])
    ELSE Append(history, [role |-> "user", content |-> prompt])

\* As ChatAppend, with the history started over when the response is empty.
ChatAppendRestart(history, prompt, response_content) ==
  IF response_content # <<>>
    THEN Append(Append(history, [role |-> "user", content |-> prompt]),
                [role |-> "assistant", content |-> response_content])
    ELSE <<[role |-> "assistant", content |-> FailedPlaceholder]>>

\* Lines 257-289: the history after one chat submission whose
\* generate_response call returned response_content.
ChatAppend(history, prompt, response_content) ==
  Append(Append(history, [role |-> "user", content |-> prompt]),
         [role |-> "assistant",
          content |-> IF response_content # <<>> THEN response_content ELSE FailedPlaceholder])

\* Line 257 alone: the history when generate_response raised.
ChatAborted(history, prompt) == Append(history, [role |-> "user", content |-> prompt])

\* ------------------------------------------------------------ state
VARIABLES
  apiKey,            \* os.getenv("GROQ_API_KEY")
  client,            \* st.cache_resource's entry for get_groq_client
  halted,            \* the last script run ended in st.stop()
  cache,             \* st.cache_data's entries for _call_groq_api
  messages,          \* st.session_state.messages
  rephrases_results, \* st.session_state.rephrases_results
  providerCalls,     \* calls of client.chat.completions.create so far
  orchCalls,         \* calls of rephrase and generate_response so far
  uiEvents,          \* button clicks and chat submissions so far
  last,              \* the latest orchestrator call: arguments, completion call, result
  fnArgs,            \* arguments of a pure function under test (CleanSpec, PromptSpec)
  fnResult,          \* its results
  fnDone,            \* the function has been applied
  event              \* the latest UI event: its kind and the text it carried

vars ==
  <<apiKey, client, halted, cache, messages, rephrases_results,
    providerCalls, orchCalls, uiEvents, last, fnArgs, fnResult, fnDone, event>>

EmptyCache == [r \in {} |-> None]

NoEvent == [kind |-> "none", text |-> <<>>]

LastOf(op, instruction, user_message, model, r) ==
  [op |-> op, instruction |-> instruction, user_message |-> user_message, model |-> model,
   ret |-> r.ret, ui |-> r.ui, called |-> r.api.called, req |-> r.api.req,
   fault |-> r.api.fault, value |-> r.api.value, network |-> r.api.network,
   sent |-> r.api.sent, provided |-> r.api.provided, timing |-> r.api.timing]

NoLast == LastOf("none", <<>>, <<>>, "", OrchResult(<<>>, <<>>, NoCall))

Init ==
  /\ apiKey \in ApiKeys
  /\ client = "none"
  /\ halted = FALSE
  /\ cache = EmptyCache
  /\ messages = <<>>
  /\ rephrases_results = <<>>
  /\ providerCalls = 0
  /\ orchCalls = 0
  /\ uiEvents = 0
  /\ last = NoLast
  /\ fnArgs = <<>>
  /\ fnResult = <<>>
  /\ fnDone = FALSE
  /\ event = NoEvent

\* A script run while no client is cached: get_groq_client runs its body
\* (lines 26-40) and either caches the client or stops the script.
LoadPage ==
  /\ client = "none"
  /\ \E listed \in ListOutcomes(apiKey) :
       /\ client' = ClientAfter(apiKey, listed)
       /\ halted' = (client' = "none")
  /\ UNCHANGED <<apiKey, cache, messages, rephrases_results, providerCalls,
                 orchCalls, uiEvents, last, fnArgs, fnResult, fnDone, event>>

\* As Orchestrated, with a failed provider call tried a second time.
OrchestratedRetry(op, instruction, user_message, model, r) ==
  /\ cache' = r.api.cache
  /\ providerCalls' = providerCalls
       + (IF r.api.network THEN (IF Truthy(r.api.value.error) THEN 2 ELSE 1) ELSE 0)
  /\ orchCalls' = orchCalls + 1
  /\ last' = LastOf(op, instruction, user_message, model, r)

\* The effect of one orchestrator call on the completion cache and counters.
Orchestrated(op, instruction, user_message, model, r) ==
  /\ cache' = r.api.cache
  /\ providerCalls' = providerCalls + (IF r.api.network THEN 1 ELSE 0)
  /\ orchCalls' = orchCalls + 1
  /\ last' = LastOf(op, instruction, user_message, model, r)

\* Writing Tools, lines 207-223: one button click with user_input in the
\* text area and selected_model in the sidebar.
ClickButton ==
  /\ client = "ready"
  /\ uiEvents < MaxEvents
  /\ \E btn_name \in Buttons, user_input \in WritingTexts,
        selected_model \in Models, outcome \in ProviderOutcomes :
       /\ event' = [kind |-> "click", text |-> user_input]
       /\ IF user_input # <<>>
            THEN LET r == rephrase(cache, button_actions[btn_name], user_input,
                                   selected_model, outcome)
                 IN /\ Orchestrated("rephrase", button_actions[btn_name], user_input,
                                    selected_model, r)
                    /\ rephrases_results' =
                         IF r.api.fault = None THEN r.ret ELSE rephrases_results
            ELSE UNCHANGED <<cache, providerCalls, orchCalls, last, rephrases_results>>
  /\ uiEvents' = uiEvents + 1
  /\ UNCHANGED <<apiKey, client, halted, messages, fnArgs, fnResult, fnDone>>

\* Chat with AI, lines 255-289: one chat input submission.
ChatSubmit ==
  /\ client = "ready"
  /\ uiEvents < MaxEvents
  /\ \E prompt \in ChatTexts, selected_model \in Models, outcome \in ProviderOutcomes :
       LET r == generate_response(cache, chat_instruction, prompt, selected_model, outcome)
       IN /\ event' = [kind |-> "chat", text |-> prompt]
          /\ Orchestrated("generate_response", chat_instruction, prompt, selected_model, r)
          /\ messages' = IF r.api.fault = None
                           THEN ChatAppend(messages, prompt, r.ret)
                           ELSE ChatAborted(messages, prompt)
  /\ uiEvents' = uiEvents + 1
  /\ UNCHANGED <<apiKey, client, halted, rephrases_results, fnArgs, fnResult, fnDone>>

Next == LoadPage \/ ClickButton \/ ChatSubmit

Spec == Init /\ [][Next]_vars

\* ------------------------------------------------------------ direct calls
\* The module imported with a working client; rephrase and
\* generate_response are called with arguments of the caller's choosing.
FnInit ==
  /\ apiKey = "gsk_valid"
  /\ client = "ready"
  /\ halted = FALSE
  /\ cache = EmptyCache
  /\ messages = <<>>
  /\ rephrases_results = <<>>
  /\ providerCalls = 0
  /\ orchCalls = 0
  /\ uiEvents = 0
  /\ last = NoLast
  /\ fnArgs = <<>>
  /\ fnResult = <<>>
  /\ fnDone = FALSE
  /\ event = NoEvent

CallRephrase ==
  /\ orchCalls < MaxEvents
  /\ \E user_message \in WritingTexts, model \in FnModels, outcome \in ProviderOutcomes :
       Orchestrated("rephrase", button_actions["Rephrase"], user_message, model,
                    rephrase(cache, button_actions["Rephrase"], user_message, model, outcome))
  /\ UNCHANGED <<apiKey, client, halted, messages, rephrases_results, uiEvents,
                 fnArgs, fnResult, fnDone, event>>

CallGenerateResponse ==
  /\ orchCalls < MaxEvents
  /\ \E instruction \in {<<>>, chat_instruction}, user_message \in {<<>>, <<"hello">>},
        model \in FnModels, outcome \in ProviderOutcomes :
       Orchestrated("generate_response", instruction, user_message, model,
                    generate_response(cache, instruction, user_message, model, outcome))
  /\ UNCHANGED <<apiKey, client, halted, messages, rephrases_results, uiEvents,
                 fnArgs, fnResult, fnDone, event>>

FnNext == CallRephrase \/ CallGenerateResponse

FnSpec == FnInit /\ [][FnNext]_vars

\* ------------------------------------------------------------ cleaning alone
\* Raw choice texts: every text of at most MaxTextLen characters over a
\* space, a double quote and a letter.
CleanChars == {" ", "\"", "a"}

RawTexts == UNION {[1..n -> CleanChars] : n \in 0..MaxTextLen}

CleanInit ==
  /\ apiKey = "gsk_valid"
  /\ client = "ready"
  /\ halted = FALSE
  /\ cache = EmptyCache
  /\ messages = <<>>
  /\ rephrases_results = <<>>
  /\ providerCalls = 0
  /\ orchCalls = 0
  /\ uiEvents = 0
  /\ last = NoLast
  /\ fnArgs \in RawTexts
  /\ fnResult = <<>>
  /\ fnDone = FALSE
  /\ event = NoEvent

\* Line 126 applied to the raw text r, and applied again to its result.
ApplyClean ==
  /\ ~fnDone
  /\ fnResult' = <<Clean(fnArgs), Clean(Clean(fnArgs))>>
  /\ fnDone' = TRUE
  /\ UNCHANGED <<apiKey, client, halted, cache, messages, rephrases_results,
                 providerCalls, orchCalls, uiEvents, last, fnArgs, event>>

CleanNext == ApplyClean

CleanSpec == CleanInit /\ [][CleanNext]_vars

\* ------------------------------------------------------------ prompts alone
\* The text each prompt puts between instruction and user message.
RephraseSeparator ==
  <<"\n", "\n", "Rewrite the following text according to the instruction:", "\n", "\"">>

ChatSeparator == <<"\n", "\n", "\"">>

\* Instructions and user messages the prompts are built from: plain ones,
\* and ones that hold a prompt's own separator text.
PromptInstructions ==
  {chat_instruction, <<"a">>,
   <<"a">> \o ChatSeparator \o <<"b">>,
   <<"a">> \o RephraseSeparator \o <<"b">>}

PromptTexts ==
  {<<"c">>,
   <<"b">> \o ChatSeparator \o <<"c">>,
   <<"b">> \o RephraseSeparator \o <<"c">>}

PromptInit ==
  /\ apiKey = "gsk_valid"
  /\ client = "ready"
  /\ halted = FALSE
  /\ cache = EmptyCache
  /\ messages = <<>>
  /\ rephrases_results = <<>>
  /\ providerCalls = 0
  /\ orchCalls = 0
  /\ uiEvents = 0
  /\ last = NoLast
  /\ fnArgs \in [i1 : PromptInstructions, t1 : PromptTexts,
                  i2 : PromptInstructions, t2 : PromptTexts]
  /\ fnResult = <<>>
  /\ fnDone = FALSE
  /\ event = NoEvent

\* Lines 113-117 and line 143, for two (instruction, user_message) pairs.
BuildPrompts ==
  /\ ~fnDone
  /\ fnResult' = [rephrase1 |-> RephrasePrompt(fnArgs.i1, fnArgs.t1),
                  rephrase2 |-> RephrasePrompt(fnArgs.i2, fnArgs.t2),
                  chat1 |-> ChatPrompt(fnArgs.i1, fnArgs.t1),
                  chat2 |-> ChatPrompt(fnArgs.i2, fnArgs.t2)]
  /\ fnDone' = TRUE
  /\ UNCHANGED <<apiKey, client, halted, cache, messages, rephrases_results,
                 providerCalls, orchCalls, uiEvents, last, fnArgs, event>>

PromptNext == BuildPrompts

PromptSpec == PromptInit /\ [][PromptNext]_vars

\* ------------------------------------------------------------ properties
Succeeded(v) == Truthy(v.responses)

Failed(v) == Truthy(v.error)

\* The step is one call of rephrase or generate_response.
OrchStep == orchCalls' # orchCalls

\* C1: a failed completion call is not cached: the cache holds only
\* successful outcomes, and a call that returns a failure has contacted the
\* provider (so a retry of a failed request is a new network call).
C1_FailureNonCaching ==
  /\ \A r \in DOMAIN cache : ~Failed(cache[r])
  /\ (last.called /\ Failed(last.value)) => last.network

\* C2: once a request has a successful outcome, the outcome stays stored
\* unchanged, and every later call with the same request returns exactly
\* that outcome without a provider call; a new success is stored as returned.
C2_CacheDeterminism ==
  [][/\ \A r \in DOMAIN cache :
          Succeeded(cache[r]) =>
            /\ r \in DOMAIN cache'
            /\ cache'[r] = cache[r]
            /\ (OrchStep /\ last'.called /\ last'.req = r) =>
                 /\ last'.value = cache[r]
                 /\ ~last'.network
                 /\ providerCalls' = providerCalls
     /\ (OrchStep /\ last'.called /\ last'.network /\ Succeeded(last'.value)) =>
          /\ last'.req \in DOMAIN cache'
          /\ cache'[last'.req] = last'.value]_vars

\* C2 witness: a third call served from the cache with a stored success,
\* while the cache holds another request's entry as well.
C2_Witness ==
  /\ orchCalls = 3
  /\ last.called /\ ~last.network /\ Succeeded(last.value)
  /\ Cardinality(DOMAIN cache) >= 2
  /\ providerCalls = 2

\* C3 as stated: every successful completion call returns exactly n choices,
\* and a successful rephrase returns exactly NUM_REPHRASES results.
C3_VariantCountExact ==
  (last.called /\ Succeeded(last.value)) =>
    /\ Len(last.value.responses[1]) = last.req.n
    /\ (last.op = "rephrase" => Len(last.ret) = NUM_REPHRASES)

\* C3 amended: a successful completion call returns as many choices as the
\* provider's response carried (at least one), whatever n was requested, and
\* rephrase returns one result per returned choice.
C3_VariantCountFollowsProvider ==
  (last.called /\ Succeeded(last.value)) =>
    /\ Len(last.value.responses[1]) >= 1
    /\ last.network => Len(last.value.responses[1]) = last.provided.k
    /\ (last.op = "rephrase" => Len(last.ret) = Len(last.value.responses[1]))

\* C3 witness: rephrase succeeded with fewer choices than it requested.
C3_Witness ==
  /\ last.op = "rephrase" /\ last.network /\ Succeeded(last.value)
  /\ last.provided.k < last.req.n
  /\ Len(last.ret) = last.provided.k

\* The history as it was when the latest chat turn called the provider: the
\* turn's user message is appended before the call, the assistant entry after.
HistoryAtCall == SubSeq(messages, 1, Len(messages) - 1)

C5_FailureAppendsNoAssistant ==
  (last.op = "generate_response" /\ Failed(last.value)) =>
    /\ Len(messages) >= 1
    /\ messages[Len(messages)] = [role |-> "user", content |-> last.user_message]

\* C5 amended: after a chat turn whose completion call failed, the history
\* ends with the turn's user message followed by one assistant entry holding
\* the fixed failure placeholder.
C5_FailureAppendsPlaceholder ==
  (last.op = "generate_response" /\ Failed(last.value)) =>
    /\ Len(messages) >= 2
    /\ messages[Len(messages) - 1] = [role |-> "user", content |-> last.user_message]
    /\ messages[Len(messages)] = [role |-> "assistant", content |-> FailedPlaceholder]

\* C5 witness: a chat turn whose provider call raised.
C5_Witness ==
  /\ last.op = "generate_response" /\ last.network /\ Failed(last.value)
  /\ last.provided.kind = "raise"
  /\ Len(messages) = 2

\* A result of _call_groq_api of one of the two shapes.
WellFormedOutcome(v) ==
  \/ v.responses # None /\ v.responses[1] # <<>> /\ v.error = None
  \/ v.responses = None /\ v.error # None /\ v.error[1] # <<>>

\* C6: every result _call_groq_api returns, fresh or stored, is either a
\* non-empty list with no error or no list with a non-empty error message.
C6_OutcomeShape ==
  /\ (last.called /\ last.fault = None) => WellFormedOutcome(last.value)
  /\ \A r \in DOMAIN cache : WellFormedOutcome(cache[r])

\* C6 witness: the zero-choice response has been returned while results of
\* both shapes are stored.
C6_Witness ==
  /\ last.network /\ last.provided.kind = "completion" /\ last.provided.k = 0
  /\ \E r \in DOMAIN cache : Succeeded(cache[r])
  /\ \E r \in DOMAIN cache : Failed(cache[r])

\* C7: no exception of the provider call leaves _call_groq_api: a raising
\* provider call yields an error value, and rephrase and generate_response
\* return (the empty list, the empty string).
C7_FaultsBecomeValues ==
  /\ last.fault = None
  /\ (last.network /\ last.provided.kind = "raise") =>
       /\ last.value.responses = None
       /\ Failed(last.value)
       /\ last.ret = <<>>
       /\ last.ui = <<"error">>

\* C7 witness: the provider call raised an exception outside groq's classes.
C7_Witness ==
  /\ last.network /\ last.provided.kind = "raise" /\ last.provided.exc = "TypeError"
  /\ last.op \in {"rephrase", "generate_response"}

\* C8: the history starts empty and every step leaves the earlier history
\* as a prefix of the new one.
C8_HistoryAppendOnly ==
  /\ messages = <<>>
  /\ [][IsPrefix(messages, messages')]_vars

\* C8 witness: a history of a failed turn followed by a successful one.
C8_Witness ==
  /\ Len(messages) = 4
  /\ messages[2].content = FailedPlaceholder
  /\ messages[4].content # FailedPlaceholder

\* C9: a call of rephrase with empty text returns the empty list, makes no
\* completion call and no provider call, shows no error or warning, and
\* leaves the cache as it was.
C9_RephraseEmptyNoOp ==
  [][(OrchStep /\ last'.op = "rephrase" /\ last'.user_message = <<>>) =>
       /\ last'.ret = <<>>
       /\ ~last'.called
       /\ ~last'.network
       /\ last'.ui = <<>>
       /\ cache' = cache
       /\ providerCalls' = providerCalls]_vars

\* C9 witness: rephrase was called with empty text while the cache held entries.
C9_Witness ==
  /\ last.op = "rephrase" /\ last.user_message = <<>>
  /\ cache # EmptyCache
  /\ providerCalls >= 1

\* C10: a provider response with zero choices gives the no-choices failure,
\* and rephrase then returns the empty list without raising.
C10_ZeroChoices ==
  (last.network /\ last.provided.kind = "completion" /\ last.provided.k = 0) =>
    /\ last.fault = None
    /\ last.value = [responses |-> None, error |-> Some(<<"API returned no choices.">>)]
    /\ (last.op = "rephrase" => last.ret = <<>>)

\* C10 witness: rephrase received a response with zero choices.
C10_Witness ==
  /\ last.op = "rephrase" /\ last.network
  /\ last.provided.kind = "completion" /\ last.provided.k = 0

\* C11: a successful rephrase returns one result per choice of the response,
\* in response order: result i is choice i with surrounding whitespace and
\* then surrounding double quotes removed; nothing is dropped or reordered,
\* and a fresh response's choices are the provider's, in its order.
C11_RephraseKeepsOrder ==
  (last.op = "rephrase" /\ Succeeded(last.value)) =>
    /\ last.fault = None
    /\ Len(last.ret) = Len(last.value.responses[1])
    /\ \A i \in 1..Len(last.ret) : last.ret[i] = Clean(last.value.responses[1][i])
    /\ last.network => last.value.responses[1] = ProviderChoices(last.provided.k)
    /\ (last.op = "rephrase" /\ uiEvents > 0) => rephrases_results = last.ret

\* C11 witness: three choices "hi", a quoted "b" in whitespace, and a blank
\* came back as "hi", "b" and the empty text, in that order.
C11_Witness ==
  /\ last.op = "rephrase" /\ last.network /\ last.provided.k = 3
  /\ last.value.responses[1] = << <<"hi">>, <<" ", "\"", "b", "\"", "\n">>, <<" ">> >>
  /\ last.ret = << <<"hi">>, <<"b">>, <<>> >>

\* C12: the cleaning rephrase applies to a raw choice is idempotent:
\* cleaning the cleaned text gives the cleaned text again.
C12_CleanIdempotent ==
  fnDone => fnResult[2] = fnResult[1]

\* A well-formed reasoning-tag span: an opening tag with a closing tag after it.
HasSpan(s) ==
  \E i \in 1..Len(s) : \E j \in (i + 1)..Len(s) : s[i] = "<think>" /\ s[j] = "</think>"

\* The position of the first closing tag of s (0 when there is none).
FirstClose(s) ==
  IF \E j \in 1..Len(s) : s[j] = "</think>"
    THEN CHOOSE j \in 1..Len(s) : s[j] = "</think>" /\ \A p \in 1..(j - 1) : s[p] # "</think>"
    ELSE 0

\* s with every well-formed span, markup and contents, taken out.
RECURSIVE WithoutSpans(_)
WithoutSpans(s) ==
  IF s = <<>> THEN <<>>
  ELSE IF Head(s) = "<think>" /\ FirstClose(s) > 0
    THEN WithoutSpans(SubSeq(s, FirstClose(s) + 1, Len(s)))
    ELSE <<Head(s)>> \o WithoutSpans(Tail(s))

\* t is s less a run of characters of chars at each end, and t does not
\* begin or end with a character of ends.
TrimOf(t, s, chars, ends) ==
  /\ \E i \in 1..(Len(s) + 1) : \E j \in 0..Len(s) :
       /\ t = SubSeq(s, i, j)
       /\ \A p \in 1..(i - 1) : s[p] \in chars
       /\ \A p \in (j + 1)..Len(s) : s[p] \in chars
  /\ t # <<>> => (t[1] \notin ends /\ t[Len(t)] \notin ends)

C14_NoCredentialNoCalls ==
  apiKey = "" =>
    /\ client = "none"
    /\ providerCalls = 0
    /\ orchCalls = 0
    /\ uiEvents = 0
    /\ cache = EmptyCache
    /\ ~last.called

\* C14 witness: a script run with the credential missing has stopped.
C14_Witness ==
  /\ apiKey = ""
  /\ halted
  /\ client = "none"

HasNewline(s) == \E p \in 1..Len(s) : s[p] = "\n"

\* The two (instruction, user message) pairs differ.
PairsDiffer == <<fnArgs.i1, fnArgs.t1>> # <<fnArgs.i2, fnArgs.t2>>

C16_TimingEveryAttempt ==
  last.network => last.timing

\* C16 amended: a timing observation is emitted exactly for the call attempts
\* on which the provider call returns a completion (with or without
\* choices); an attempt on which the provider call raises emits none.  The
\* outcome of a timed attempt is the one the completion alone decides.
C16_TimingOnReturn ==
  /\ last.timing <=> (last.network /\ last.provided.kind = "completion")
  /\ (last.network /\ last.provided.kind = "raise") => (~last.timing /\ Failed(last.value))
  /\ last.timing =>
       /\ last.fault = None
       /\ last.value = IF last.provided.k = 0
                         THEN [responses |-> None,
                               error |-> Some(<<"API returned no choices.">>)]
                         ELSE [responses |-> Some(ProviderChoices(last.provided.k)),
                               error |-> None]

\* C16 witness: a second provider call raised and emitted no timing.
C16_Witness ==
  /\ last.network /\ last.provided.kind = "raise"
  /\ ~last.timing
  /\ providerCalls = 2

\* C17 as stated: every UI event makes exactly one orchestrator call and at
\* most one provider call, and the provider calls never outnumber the UI events.
C17_OneCallPerEvent ==
  [][uiEvents' # uiEvents =>
       /\ orchCalls' = orchCalls + 1
       /\ providerCalls' - providerCalls \in {0, 1}
       /\ providerCalls' <= uiEvents']_vars

\* C17 amended: every UI event makes at most one orchestrator call: exactly
\* one for a chat submission and for a button click with text in the text
\* area, none for a button click with the text area empty (which changes
\* nothing else); an orchestrator call makes at most one provider call, and
\* provider calls never outnumber orchestrator calls, nor these the UI events.
C17_AtMostOneCallPerEvent ==
  [][/\ uiEvents' # uiEvents =>
          /\ uiEvents' = uiEvents + 1
          /\ orchCalls' - orchCalls
               = (IF event'.kind = "click" /\ event'.text = <<>> THEN 0 ELSE 1)
          /\ providerCalls' - providerCalls \in {0, 1}
          /\ providerCalls' - providerCalls <= orchCalls' - orchCalls
          /\ providerCalls' <= orchCalls' /\ orchCalls' <= uiEvents'
          /\ orchCalls' = orchCalls =>
               UNCHANGED <<cache, last, messages, rephrases_results>>
     /\ uiEvents' = uiEvents =>
          (orchCalls' = orchCalls /\ providerCalls' = providerCalls)]_vars

\* C17 witness: after an event that reached the provider, a button was
\* clicked with the text area empty.
C17_Witness ==
  /\ uiEvents = 2 /\ orchCalls = 1 /\ providerCalls = 1
  /\ event = [kind |-> "click", text |-> <<>>]

\* The first choice of the latest completion is empty or whitespace only.
BlankReply ==
  /\ Succeeded(last.value)
  /\ \A p \in 1..Len(last.value.responses[1][1]) : last.value.responses[1][1][p] \in Whitespace

\* C18: every chat turn appends exactly two messages, the user message and
\* then one assistant message: the stripped model reply when the call
\* succeeded with a reply that is not blank, the fixed placeholder otherwise.
\* So the history has even length and its roles alternate, user first.
C18_TurnsAppendPairs ==
  /\ [](/\ Len(messages) % 2 = 0
        /\ \A i \in 1..Len(messages) :
             messages[i].role = (IF i % 2 = 1 THEN "user" ELSE "assistant"))
  /\ [][messages' # messages =>
          /\ last'.op = "generate_response"
          /\ Len(messages') = Len(messages) + 2
          /\ SubSeq(messages', 1, Len(messages)) = messages
          /\ messages'[Len(messages) + 1] = [role |-> "user", content |-> event'.text]
          /\ messages'[Len(messages) + 2].role = "assistant"
          /\ messages'[Len(messages) + 2].content =
               (IF Succeeded(last'.value) /\ ~BlankReply'
                  THEN Strip(last'.value.responses[1][1], Whitespace)
                  ELSE FailedPlaceholder)]_vars

\* C18 witness: three turns, the first answered, the second failed, the
\* third answered from the cache.
C18_Witness ==
  /\ Len(messages) = 6
  /\ messages[2].content = <<"hi">>
  /\ messages[4].content = FailedPlaceholder
  /\ messages[6].content = <<"hi">>
  /\ ~last.network

\* C19: a chat completion that succeeds with a blank first choice gives the
\* same as a failed one: generate_response returns the empty string, the
\* handler appends the failure placeholder as the assistant entry, and the
\* successful outcome is the request's cache entry.
C19_BlankReplyLooksFailed ==
  (last.op = "generate_response" /\ last.called /\ uiEvents > 0) =>
    /\ (Failed(last.value) \/ BlankReply) =>
         /\ last.ret = <<>>
         /\ messages[Len(messages)] = [role |-> "assistant", content |-> FailedPlaceholder]
    /\ BlankReply =>
         /\ last.req \in DOMAIN cache
         /\ cache[last.req] = last.value
         /\ Succeeded(cache[last.req])
         /\ last.ui = <<>>

\* C19 witness: the provider answered a chat turn with one whitespace-only
\* choice.
C19_Witness ==
  /\ last.op = "generate_response" /\ last.network
  /\ BlankReply
  /\ last.value.responses[1] = << <<" ">> >>
  /\ messages[Len(messages)].content = FailedPlaceholder
  /\ Succeeded(cache[last.req])

====
